---- MODULE Spec2Model ----
(***************************************************************************)
(* Model of the save verification step of the wed selenium test suite      *)
(* (packages/core/selenium_test/steps/saving.py): the predicate `cond`     *)
(* that fetches the save artifact, repairs and decodes it, normalizes the  *)
(* serialized data according to the browser, and compares it with the      *)
(* expected table; and the polling loop that drives the predicate.         *)
(*                                                                         *)
(* Python strings are TLA+ strings.  TLC evaluates Len, SubSeq and \o on    *)
(* strings, so every string operation below works on the characters of    *)
(* the real text.  A value that a Python statement binds and then uses     *)
(* several times is passed as a parameter to a helper operator.            *)
(***************************************************************************)
EXTENDS Integers, Sequences, FiniteSets, TLC

(***************************************************************************)
(* String primitives (Python str semantics).                               *)
(***************************************************************************)

\* The smallest element of a set of integers, or none when it is empty.
MinOr(S, none) == IF S = {} THEN none ELSE CHOOSE x \in S : \A y \in S : x <= y

\* The largest element of a set of integers, or none when it is empty.
MaxOr(S, none) == IF S = {} THEN none ELSE CHOOSE x \in S : \A y \in S : x >= y

\* s[i-1] in Python terms: the i-th character (1-based), "" out of range.
At(s, i) == IF i >= 1 /\ i <= Len(s) THEN SubSeq(s, i, i) ELSE ""

\* s[i-1:]: the suffix that starts at the i-th character.
From(s, i) == IF i > Len(s) THEN "" ELSE SubSeq(s, i, Len(s))

\* s[:i]: the first i characters.
Upto(s, i) == IF i <= 0 THEN "" ELSE SubSeq(s, 1, i)

\* s.startswith(lit, i-1): lit occurs in s at position i.
StartsAt(s, lit, i) ==
    /\ i >= 1
    /\ i + Len(lit) - 1 <= Len(s)
    /\ SubSeq(s, i, i + Len(lit) - 1) = lit

\* s.find(lit, i-1) + 1: the first position >= i where lit occurs, 0 if none.
\* The 64 positions from i are searched first; FindFar is given the first
\* hit among them (0 if none) and searches the rest of the text.
FindFar(s, lit, i, hit) ==
    IF hit # 0 THEN hit
    ELSE MinOr({j \in (i + 64)..(Len(s) - Len(lit) + 1) :
                   StartsAt(s, lit, j)}, 0)

Find(s, lit, i) ==
    FindFar(s, lit, i, MinOr({j \in i..(i + 63) : StartsAt(s, lit, j)}, 0))

\* The element of a non-empty set of integers that half of the others
\* precede.
Middle(S) ==
    CHOOSE p \in S : Cardinality({q \in S : q < p}) = Cardinality(S) \div 2

\* The occurrences of old in s that no earlier occurrence overlaps.
\* s.replace replaces every occurrence that does not overlap one it has
\* replaced, left to right: it replaces each of these, the first
\* occurrence among them, and no occurrence it replaces spans one.
Apart(s, old) ==
    {p \in 1..(Len(s) - Len(old) + 1) :
        /\ StartsAt(s, old, p)
        /\ \A q \in (p - Len(old) + 1)..(p - 1) : ~StartsAt(s, old, q)}

\* s.replace(old, new): every non-overlapping occurrence, left to right.
\* ReplaceAt is given the occurrences that stand apart (none when old
\* does not occur): what precedes and what follows one of them is
\* rewritten on its own.
RECURSIVE Replace(_, _, _)
ReplaceAround(s, old, new, p) ==
    Replace(Upto(s, p - 1), old, new) \o new
        \o Replace(From(s, p + Len(old)), old, new)

ReplaceAt(s, old, new, apart) ==
    IF apart = {} THEN s ELSE ReplaceAround(s, old, new, Middle(apart))

Replace(s, old, new) == ReplaceAt(s, old, new, Apart(s, old))

\* The characters str.strip() removes.
Whitespace == {" ", "\t", "\n", "\r", "\f"}

\* s.lstrip(): the suffix from the first character that is no whitespace.
RECURSIVE LStrip(_)
LStrip(s) ==
    IF s # "" /\ At(s, 1) \in Whitespace THEN LStrip(From(s, 2)) ELSE s

\* s.rstrip(): the prefix to the last character that is no whitespace.
RECURSIVE RStrip(_)
RStrip(s) ==
    IF s # "" /\ At(s, Len(s)) \in Whitespace
    THEN RStrip(Upto(s, Len(s) - 1))
    ELSE s

\* s.strip()
Strip(s) == RStrip(LStrip(s))

(***************************************************************************)
(* The regular expressions of saving.py, lines 21-29, and re.sub.          *)
(***************************************************************************)

\* The first position of the line that holds position j, not before p.
LineStart(s, p, j) == MaxOr({k \in p..(j - 1) : At(s, k) = "\n"}, p - 1) + 1

\* The position of the newline that ends the line of position i
\* (Len(s) + 1 if the line is the last).
LineEnd(s, i) == MinOr({k \in i..Len(s) : At(s, k) = "\n"}, Len(s) + 1)

\* last_obj_re.sub(repl, s) where last_obj_re = re.compile('.*}{'), applied
\* to the part of s that starts at position p.  `.` matches any character
\* except a newline and `.*` is greedy: the leftmost match starts at p or
\* just after the last newline before the first "}{" boundary (position
\* i), and ends with the last boundary of that line (position j).  re.sub
\* copies what precedes the match, emits repl, and goes on after the match.
RECURSIVE last_obj_re_sub_from(_, _, _)
LastObjCut(repl, s, p, i, j) ==
    SubSeq(s, p, i - 1) \o repl \o last_obj_re_sub_from(repl, s, j + 2)

LastObjLine(repl, s, p, bounds, i) ==
    LastObjCut(repl, s, p, i, MaxOr({b \in bounds : b < LineEnd(s, i)}, 0))

LastObjMatch(repl, s, p, bounds) ==
    IF bounds = {} THEN From(s, p)
    ELSE LastObjLine(repl, s, p, bounds, LineStart(s, p, MinOr(bounds, 0)))

last_obj_re_sub_from(repl, s, p) ==
    LastObjMatch(repl, s, p, {j \in p..(Len(s) - 1) : StartsAt(s, "}{", j)})

\* last_obj_re.sub(repl, s)
last_obj_re_sub(repl, s) == last_obj_re_sub_from(repl, s, 1)

\* Variants of two of the patterns below, with attribute names out of
\* place.
flip_div_attrs_re_misordered == <<"type", "rend", "subtype", "rendition">>
flip_moo_re_reversed == <<"MOO", "moo">>

\* The four attribute patterns: each is a sequence of groups
\* (name="[^"]*?") separated by one space, given by its attribute names.
flip_rend_style_re == <<"style", "rend">>
flip_xmlns_re == <<"xmlns:math", "xmlns">>
flip_div_attrs_re == <<"type", "rend", "rendition", "subtype">>
flip_moo_re == <<"moo", "MOO">>

\* Where the group (name="[^"]*?") that starts at position i ends, 0 when
\* it does not match there.  [^"]*? followed by a quote can only stop at
\* the first quote after the opening one.
AttrEnd(s, i, name) ==
    IF StartsAt(s, name \o "=\"", i)
    THEN Find(s, "\"", i + Len(name) + 2)
    ELSE 0

\* The groups <<start, end>> of a match of the pattern at position i, <<>>
\* when the pattern does not match at i; GroupsEnd is given the end e of
\* the first group, GroupsJoin the groups of the rest of the pattern.
RECURSIVE GroupsAt(_, _, _)
GroupsJoin(i, e, rest) ==
    IF rest = <<>> THEN <<>> ELSE << <<i, e>> >> \o rest

GroupsEnd(s, i, names, e) ==
    IF e = 0 THEN <<>>
    ELSE IF Len(names) = 1 THEN << <<i, e>> >>
    ELSE IF At(s, e + 1) # " " THEN <<>>
    ELSE GroupsJoin(i, e, GroupsAt(s, e + 2, Tail(names)))

GroupsAt(s, i, names) == GroupsEnd(s, i, names, AttrEnd(s, i, Head(names)))

\* The text of a group.
GroupText(s, g) == SubSeq(s, g[1], g[2])

\* The replacement template r'\a \b ...' expanded with the groups of a
\* match: the groups named by order, separated by one space.
RECURSIVE Expand(_, _, _)
Expand(s, groups, order) ==
    IF Len(order) = 1 THEN GroupText(s, groups[Head(order)])
    ELSE GroupText(s, groups[Head(order)]) \o " "
            \o Expand(s, groups, Tail(order))

\* Where the last of the groups of a match ends, 0 for no match.
GroupsLast(groups) ==
    IF groups = <<>> THEN 0 ELSE groups[Len(groups)][2]

\* The positions of s where the pattern matches: occurrences of the first
\* group's opening, name=", that the rest of the pattern follows.
Matches(s, names) ==
    {i \in 1..Len(s) :
        /\ StartsAt(s, Head(names) \o "=\"", i)
        /\ GroupsAt(s, i, names) # <<>>}

\* The matches that no match starting earlier reaches into.  re.sub
\* replaces the leftmost match, then the leftmost one after it, and so
\* on: it replaces each of these, the first match among them, and no
\* match it replaces spans one.
MatchesApart(s, names, matches) ==
    {i \in matches :
        \A q \in matches :
            q < i => GroupsLast(GroupsAt(s, q, names)) < i}

\* pattern.sub(template, s): leftmost non-overlapping matches, each
\* replaced by the expanded template.  sub_at is given the matches that
\* stand apart (none when the pattern matches nowhere), sub_around one of
\* them and its groups: what precedes and what follows the match is
\* rewritten on its own.
RECURSIVE sub(_, _, _)
sub_around(names, order, s, i, groups) ==
    sub(names, order, Upto(s, i - 1)) \o Expand(s, groups, order)
        \o sub(names, order, From(s, GroupsLast(groups) + 1))

sub_at(names, order, s, apart) ==
    IF apart = {} THEN s
    ELSE sub_around(names, order, s, Middle(apart),
                    GroupsAt(s, Middle(apart), names))

sub(names, order, s) ==
    sub_at(names, order, s, MatchesApart(s, names, Matches(s, names)))

(***************************************************************************)
(* _SCENARIO_TO_EXPECTED_DATA, saving.py lines 31-74, one source line per  *)
(* line.                                                                   *)
(***************************************************************************)

ExpectedNamespaces ==
       "<TEI xmlns=\"http://www.tei-c.org/ns/1.0\"><teiHeader><fileDesc>"
    \o "<titleStmt><title>abcd</title></titleStmt><publicationStmt><p/>"
    \o "</publicationStmt><sourceDesc><p MOO=\"a\" moo=\"b\"/>"
    \o "</sourceDesc></fileDesc></teiHeader>"
    \o "<text><body><p><hi/>Blah blah <term>blah</term> blah.</p>"
    \o "<p><term>blah</term></p><p><ref/></p><p><hi>a</hi><hi>b</hi>c</p>"
    \o "<p>abcdefghij</p><p>aaaaaaaaaaaaaaaaaaaaaaaaaaaaaaaaaaaaaaaaaaaaa"
    \o "<hi>aaaaaaaa aaaaaaaaaaa</hi>abcd</p><p>abcd abcd abcd abcd abcd abcd "
    \o "abcd "
    \o "abcd abcd abcd abcd abcd abcd abcd abcd abcd abcd abcd abcd abcd abcd "
    \o "abcd "
    \o "abcd abcd abcd abcd abcd abcd abcd abcd abcd abcd abcd abcd abcd abcd "
    \o "abcd "
    \o "abcd abcd abcd abcd abcd abcd abcd abcd abcd abcd abcd abcd abcd abcd "
    \o "abcd "
    \o "abcd abcd abcd abcd abcd abcd abcd abcd</p>"
    \o "<p rend=\"rend_value\" style=\"style_value\">Blah</p><p rend=\"abc\">Blah</p>"
    \o "<p part=\"\">Blah</p><div sample=\"\"/><p rend=\"foo\"/><p rend=\"wrap\">Something</p>"
    \o "<p><monogr>"
    \o "This paragraph and its content are designed to test how error markers "
    \o "are shown for inline elements that end up spanning multiple lines. "
    \o "This paragraph and its content are designed to test how error markers "
    \o "are shown for inline elements that end up spanning multiple lines. "
    \o "This paragraph and its content are designed to test how error markers "
    \o "are shown for inline elements that end up spanning multiple lines."
    \o "</monogr></p><p n=\"\">P</p>"
    \o "<div type=\"a\" subtype=\"b\" rend=\"foo\" rendition=\"bar\"/>"
    \o "<div xxx=\"x\">This div has a bad attribute.</div>"
    \o "<list rend=\"list\"><item>a</item><item>b</item><item>c</item></list>"
    \o "<?pi fnord?>"
    \o "<!-- a comment -->"
    \o "<?pi something?>"
    \o "<!-- comment content -->"
    \o "</body></text></TEI>"

ExpectedTopNamespaces ==
       "<TEI xmlns=\"http://www.tei-c.org/ns/1.0\" "
    \o "xmlns:math=\"http://www.w3.org/1998/Math/MathML\"><teiHeader><fileDesc>"
    \o "<titleStmt><title/></titleStmt><publicationStmt><p/></publicationStmt>"
    \o "<sourceDesc><p/></sourceDesc></fileDesc></teiHeader><text><body><p>"
    \o "<hi/><formula><math:math/></formula></p></body></text></TEI>"
ScenarioNames ==
    {"serializes namespaces properly",
     "serializes multiple top namespaces properly"}

_SCENARIO_TO_EXPECTED_DATA ==
    [n \in ScenarioNames |->
        IF n = "serializes namespaces properly"
        THEN ExpectedNamespaces
        ELSE ExpectedTopNamespaces]

(***************************************************************************)
(* json.loads (saving.py line 91).  The decoder covers what a save         *)
(* artifact holds: objects whose members are strings, with the escapes     *)
(* \" \\ \/ \n \r \t, whitespace between tokens, and a top-level string.   *)
(* Any other text is a JSONDecodeError.                                    *)
(***************************************************************************)

\* The whitespace JSON allows between tokens.
JsonWhitespace == {" ", "\t", "\n", "\r"}

\* The characters a JSON string may not hold unescaped (strict mode).
JsonControl == {"\t", "\n", "\r", "\f"}

\* The first position >= i that holds no JSON whitespace (Len(s) + 1 if none).
RECURSIVE SkipWs(_, _)
SkipWs(s, i) == IF At(s, i) \in JsonWhitespace THEN SkipWs(s, i + 1) ELSE i

\* How many backslashes immediately precede position j.
RECURSIVE BackslashRun(_, _)
BackslashRun(s, j) ==
    IF At(s, j - 1) # "\\" THEN 0 ELSE 1 + BackslashRun(s, j - 1)

\* Position j holds a quote preceded by an even number of backslashes.
OpenQuote(s, j) == At(s, j) = "\"" /\ BackslashRun(s, j) % 2 = 0

\* The position of the quote that closes the string opened at position i:
\* the first quote after i preceded by an even number of backslashes; 0 if
\* none.  The 64 positions after i are searched first; ClosingFar is given
\* the first hit among them (0 if none).
ClosingFar(s, i, hit) ==
    IF hit # 0 THEN hit
    ELSE MinOr({j \in (i + 65)..Len(s) : OpenQuote(s, j)}, 0)

ClosingQuote(s, i) ==
    ClosingFar(s, i, MinOr({j \in (i + 1)..(i + 64) : OpenQuote(s, j)}, 0))

\* The character an escape sequence \c stands for, "" for an escape the
\* decoder rejects.
Unescaped(c) ==
    CASE c = "\"" -> "\""
      [] c = "\\" -> "\\"
      [] c = "/" -> "/"
      [] c = "n" -> "\n"
      [] c = "r" -> "\r"
      [] c = "t" -> "\t"
      [] OTHER -> ""

\* Where the escape sequences of a JSON string body start: at each
\* backslash preceded by an even number of backslashes.
EscapeStarts(body) ==
    {p \in 1..Len(body) :
        At(body, p) = "\\" /\ BackslashRun(body, p) % 2 = 0}

\* The text of a JSON string body with its escapes decoded; ok is FALSE
\* for an invalid escape.  UnescapeAt is given where the escapes start,
\* UnescapeAround one of them, UnescapeJoin the character c it escapes and
\* what precedes and follows it, decoded.
RECURSIVE Unescape(_)
UnescapeJoin(c, before, after) ==
    IF c = "" \/ ~before.ok \/ ~after.ok THEN [ok |-> FALSE, text |-> ""]
    ELSE [ok |-> TRUE, text |-> before.text \o c \o after.text]

UnescapeAround(body, i) ==
    UnescapeJoin(Unescaped(At(body, i + 1)), Unescape(Upto(body, i - 1)),
                 Unescape(From(body, i + 2)))

UnescapeAt(body, starts) ==
    IF starts = {} THEN [ok |-> TRUE, text |-> body]
    ELSE UnescapeAround(body, Middle(starts))

Unescape(body) == UnescapeAt(body, EscapeStarts(body))

\* No JSON string at the position asked for.
StringFail == [ok |-> FALSE, text |-> "", next |-> 0]

\* The JSON string that starts at position i: its value and the position
\* after it; ok is FALSE when s holds no valid string there.  q is the
\* position of the closing quote, body the text between the quotes, u its
\* decoding.
ParseStringText(u, q) ==
    IF ~u.ok THEN StringFail
    ELSE [ok |-> TRUE, text |-> u.text, next |-> q + 1]

ParseStringBody(body, q) ==
    IF {j \in 1..Len(body) : At(body, j) \in JsonControl} # {}
    THEN StringFail
    ELSE ParseStringText(Unescape(body), q)

ParseStringTo(s, i, q) ==
    IF q = 0 THEN StringFail ELSE ParseStringBody(SubSeq(s, i + 1, q - 1), q)

ParseString(s, i) ==
    IF At(s, i) # "\"" THEN StringFail
    ELSE ParseStringTo(s, i, ClosingQuote(s, i))

\* No members.
MembersFail == [ok |-> FALSE, members |-> <<>>, next |-> 0]

\* The members "key": "value" of an object from position i (just after the
\* opening brace or a comma) to its closing brace, appended to acc: the
\* key k, the colon, the value v, then a comma or the closing brace.
RECURSIVE ParseMembers(_, _, _)
ParseAfter(s, got, after) ==
    IF At(s, after) = "}"
    THEN [ok |-> TRUE, members |-> got, next |-> after + 1]
    ELSE IF At(s, after) = "," THEN ParseMembers(s, after + 1, got)
    ELSE MembersFail

ParseValue(s, acc, k, v) ==
    IF ~v.ok THEN MembersFail
    ELSE ParseAfter(s, Append(acc, <<k.text, v.text>>), SkipWs(s, v.next))

ParseColon(s, acc, k, colon) ==
    IF At(s, colon) # ":" THEN MembersFail
    ELSE ParseValue(s, acc, k, ParseString(s, SkipWs(s, colon + 1)))

ParseKey(s, acc, k) ==
    IF ~k.ok THEN MembersFail ELSE ParseColon(s, acc, k, SkipWs(s, k.next))

ParseMembers(s, i, acc) == ParseKey(s, acc, ParseString(s, SkipWs(s, i)))

\* dict(members): a later member replaces an earlier one with the same key.
ToDict(members) ==
    [k \in {members[n][1] : n \in DOMAIN members} |->
        members[MaxOr({n \in DOMAIN members : members[n][1] = k}, 0)][2]]

\* json.loads raised.
JsonFail == [exc |-> "JSONDecodeError", kind |-> "", value |-> <<>>]

\* json.loads(s): exc is "" and value the decoded object (kind "dict") or
\* string (kind "str"), or exc is "JSONDecodeError".  Nothing but
\* whitespace may follow the value.
JsonObjectEnd(s, m) ==
    IF m.ok /\ SkipWs(s, m.next) = Len(s) + 1
    THEN [exc |-> "", kind |-> "dict", value |-> ToDict(m.members)]
    ELSE JsonFail

JsonObjectAt(s, i, first) ==
    JsonObjectEnd(s, IF At(s, first) = "}"
                     THEN [ok |-> TRUE, members |-> <<>>, next |-> first + 1]
                     ELSE ParseMembers(s, i + 1, <<>>))

JsonTopString(s, str) ==
    IF str.ok /\ SkipWs(s, str.next) = Len(s) + 1
    THEN [exc |-> "", kind |-> "str", value |-> str.text]
    ELSE JsonFail

JsonValueAt(s, i) ==
    IF At(s, i) = "{" THEN JsonObjectAt(s, i, SkipWs(s, i + 1))
    ELSE IF At(s, i) = "\"" THEN JsonTopString(s, ParseString(s, i))
    ELSE JsonFail

json_loads(s) == JsonValueAt(s, SkipWs(s, 1))

(***************************************************************************)
(* The predicate of the step 'the data saved is properly serialized',      *)
(* saving.py lines 77-109.                                                 *)
(***************************************************************************)

\* The browser identities: util.ie, util.edge, or neither.
Browsers == {"default", "ie", "edge"}

\* Lines 95-107: the rewrites of actual["data"], chosen by the browser,
\* each applied to the result of the one before.
Normalize(browser, data) ==
    IF browser = "ie"
    THEN sub(flip_div_attrs_re, <<1, 4, 2, 3>>,
             sub(flip_xmlns_re, <<2, 1>>,
                 sub(flip_rend_style_re, <<2, 1>>, data)))
    ELSE IF browser = "edge"
    THEN sub(flip_moo_re, <<2, 1>>,
             sub(flip_div_attrs_re, <<1, 4, 2, 3>>,
                 sub(flip_rend_style_re, <<2, 1>>, data)))
    ELSE data

\* selenic.util.Result(result, payload), as the step builds it (line 109).
Result(result, payload) ==
    [raised |-> "", result |-> result, payload |-> payload]

\* An evaluation of the predicate that ends by raising exc.
Raised(exc) == [raised |-> exc, result |-> FALSE, payload |-> <<>>]

\* Lines 81-84: the expected envelope for a scenario of the table.
Expected(name) ==
    [command |-> "save", data |-> _SCENARIO_TO_EXPECTED_DATA[name]]

\* Variants of Compare: one that looks at the command and data members
\* only, one that reports every comparison as a success.
CompareCommandData(actual, expected) ==
    Result(/\ {"command", "data"} \subseteq DOMAIN actual
           /\ actual["command"] = expected["command"]
           /\ actual["data"] = expected["data"],
           <<actual, expected>>)

CompareAlways(actual, expected) == Result(TRUE, <<actual, expected>>)

\* A variant of Processed that leaves the version member in place.
ProcessedWithVersion(obj, browser) ==
    [k \in DOMAIN obj |->
        IF k = "data" THEN Normalize(browser, obj[k]) ELSE obj[k]]

\* Lines 93-107: the decoded object without its version member and with
\* its data member, when it has one, normalized.
Processed(obj, browser) ==
    [k \in (DOMAIN obj) \ {"version"} |->
        IF k = "data" THEN Normalize(browser, obj[k]) ELSE obj[k]]

\* Line 109: the comparison and the Result.
Compare(actual, expected) == Result(actual = expected, <<actual, expected>>)

\* A variant of CondLoaded that reports a text json.loads cannot decode as
\* a mismatch instead of raising.
CondLoadedMismatch(loaded, browser, expected) ==
    IF loaded.exc # "" THEN Result(FALSE, <<loaded.value, expected>>)
    ELSE IF loaded.kind # "dict" THEN Raised("TypeError")
    ELSE IF "version" \notin DOMAIN loaded.value THEN Raised("KeyError")
    ELSE Compare(Processed(loaded.value, browser), expected)

\* Lines 91-109, given what json.loads made of the repaired text: deleting
\* the version member of a str raises TypeError, of a dict without one
\* KeyError.
CondLoaded(loaded, browser, expected) ==
    IF loaded.exc # "" THEN Raised(loaded.exc)
    ELSE IF loaded.kind # "dict" THEN Raised("TypeError")
    ELSE IF "version" \notin DOMAIN loaded.value THEN Raised("KeyError")
    ELSE Compare(Processed(loaded.value, browser), expected)

\* Lines 86-109: cond(_driver), given the body of the response to the GET
\* of /build/ajax/save.txt.
cond(response, browser, expected) ==
    CondLoaded(
        json_loads(
            last_obj_re_sub("{", Strip(Replace(response, "\n***\n", "")))),
        browser, expected)

(***************************************************************************)
(* The save artifact as the editor and the test server produce it.        *)
(***************************************************************************)

\* JSON.stringify of a string.
JsonString(v) ==
    "\"" \o Replace(Replace(Replace(v, "\\", "\\\\"), "\"", "\\\""),
                    "\n", "\\n") \o "\""

\* The document as a browser serializes it: the IE-like and Edge-like
\* engines emit the attributes that the rewrites of lines 95-107 undo in
\* the other order.
Serialized(browser, doc) ==
    IF browser = "ie"
    THEN sub(<<"type", "subtype", "rend", "rendition">>, <<1, 3, 4, 2>>,
             sub(<<"xmlns", "xmlns:math">>, <<2, 1>>,
                 sub(<<"rend", "style">>, <<2, 1>>, doc)))
    ELSE IF browser = "edge"
    THEN sub(<<"MOO", "moo">>, <<2, 1>>,
             sub(<<"type", "subtype", "rend", "rendition">>, <<1, 3, 4, 2>>,
                 sub(<<"rend", "style">>, <<2, 1>>, doc)))
    ELSE doc

\* Documents that are not the expected one: the states of earlier saves.
StaleDoc == "<TEI xmlns=\"http://www.tei-c.org/ns/1.0\"><p>old</p></TEI>"

OlderDoc == "<TEI xmlns=\"http://www.tei-c.org/ns/1.0\"><p>older</p></TEI>"

\* The kinds of record a save request leaves in the artifact.
\*   match     the envelope of the scenario's document, on one line
\*   stale     the envelope of an earlier document, on one line
\*   pretty    the envelope of an earlier document, one member per line
\*   noversion the envelope of the scenario's document without version
EnvelopeKinds == {"match", "stale", "pretty", "noversion"}

\* The record of one save, by kind, for a document.
Envelope(kind, doc) ==
    CASE kind = "match" ->
           "{\"command\":\"save\",\"version\":\"2\",\"data\":"
              \o JsonString(doc) \o "}"
      [] kind = "stale" ->
           "{\"command\":\"save\",\"version\":\"1\",\"data\":"
              \o JsonString(StaleDoc) \o "}"
      [] kind = "pretty" ->
           "{\n \"command\": \"save\",\n \"version\": \"1\",\n \"data\": "
              \o JsonString(OlderDoc) \o "\n}"
      [] OTHER ->
           "{\"command\":\"save\",\"data\":" \o JsonString(doc) \o "}"

\* What the artifact ends with while a record is being written.
Fragment == "{\"command\":\"save\",\"ver"

\* What a write to the artifact can be: a whole record, or the start of
\* one that the next write completes.
WriteKinds == EnvelopeKinds \cup {"partial"}

(***************************************************************************)
(* The step 'the data saved is properly serialized' run against a server  *)
(* whose artifact the editor's saves extend while the step polls.         *)
(***************************************************************************)

\* Bounds of the model.
Timeout == 1
MaxCalls == 3
MaxSaves == 2

VARIABLES
    artifact,   \* the records written in full to /build/ajax/save.txt
    saves,      \* how many writes the artifact has had
    lastKind,   \* the kind of the last write, "" when none
    browser,    \* the browser identity (util.ie, util.edge)
    scenario,   \* context.scenario.name
    pc,         \* where the step is: idle, start, polling, returned,
                \* timedout, done
    now,        \* the clock
    deadline,   \* when the wait started plus the timeout
    calls,      \* how many times the predicate was invoked
    hist,       \* what each invocation of the predicate ended with
    seen,       \* <<lastKind, saves>> at each invocation of the predicate
    last,       \* the last Result the predicate returned, NoResult if none
    outcome,    \* how the step ended: passed, or the error it raised
    detail,     \* the operands of the assertion that failed, if one did
    table,      \* the module's _SCENARIO_TO_EXPECTED_DATA
    maxDiff     \* assert_equal.__self__.maxDiff, shared by the process

stepVars == <<artifact, saves, lastKind, browser, scenario, pc, now,
              deadline, calls, hist, seen, last, outcome, detail, table,
              maxDiff>>

\* Lines 88-91 run one statement at a time on a given response body.
VARIABLES
    pInput,     \* the envelopes the body was written from, <<>> if none
    pText,      \* text, as lines 88-90 assign it
    pStripped,  \* text as line 89 left it
    pObj,       \* what json.loads made of text (line 91)
    pPc         \* the line reached: l89, l90, l91, l93

parseVars == <<pInput, pText, pStripped, pObj, pPc>>

\* Lines 94-107 run one statement at a time on a given actual["data"].
VARIABLES
    nBrowser,   \* the browser identity
    nTags,      \* the tags the data was written from, <<>> if none
    nInput,     \* actual["data"] as decoded
    nData,      \* actual["data"], as lines 96-107 assign it
    nLog,       \* the rewrites applied so far, by number
    nPc         \* the line reached: l95, l96, ..., l109

normVars == <<nBrowser, nTags, nInput, nData, nLog, nPc>>

\* Lines 87-109, one evaluation of cond a statement at a time on the
\* artifact that one envelope makes.
VARIABLES
    cBrowser,   \* the browser identity
    cScenario,  \* context.scenario.name
    cEnvelope,  \* the envelope the artifact ends with
    cText,      \* text, as lines 88-90 assign it
    cActual,    \* actual, as lines 91-107 assign and change it
    cLog,       \* the statements run so far, in order
    cResult,    \* what the evaluation ended with, NoResult before it ends
    cPc         \* the line reached, "returned" or "raised" at the end

condVars == <<cBrowser, cScenario, cEnvelope, cText, cActual, cLog, cResult,
              cPc>>

\* The steps of transform.py on a sibling insertion.
VARIABLES
    tFor,       \* context.context_menu_for: "None" or "element"
    tInfo,      \* context.context_menu_pre_transformation_info
    tPreceding, \* how many siblings precede the element now
    tFollowing, \* how many siblings follow the element now
    tStale,     \* whether the element has left the document
    tStep,      \* the step that ran, "" before it
    tOutcome    \* how the step ended, "" before it

transformVars == <<tFor, tInfo, tPreceding, tFollowing, tStale, tStep,
                   tOutcome>>

\* The selection steps of caret.py
VARIABLES
    gui,        \* the editor in the browser: the text of the element, whether
                \* labels are shown, the width of a character, the caret
                \* and the anchor of the selection
    frame,      \* the step that runs: its name, its argument, the line
                \* reached, its local variables, how it ended
    context     \* the attributes of the behave context the steps set

caretVars == <<gui, frame, context>>

vars == <<stepVars, parseVars, normVars, condVars, transformVars, caretVars>>

\* No Result returned yet.
NoResult == [raised |-> "none", result |-> FALSE, payload |-> <<>>]

\* A scenario name the table has no entry for.
OtherScenario == "does something else"

\* The document the editor holds in a scenario: the one the table expects.
Document(name) ==
    IF name \in ScenarioNames THEN _SCENARIO_TO_EXPECTED_DATA[name]
    ELSE StaleDoc

\* The record each kind of save leaves in the artifact, by browser and
\* scenario: the envelope of the document as that browser serializes it.
Records ==
    [b \in Browsers |->
        [n \in ScenarioNames \cup {OtherScenario} |->
            [k \in EnvelopeKinds |->
                Envelope(k, Serialized(b, Document(n)))]]]

\* The step before it runs, on a server that has no artifact yet.
StepInit ==
    /\ artifact = ""
    /\ saves = 0
    /\ lastKind = ""
    /\ browser \in Browsers
    /\ scenario \in ScenarioNames \cup {OtherScenario}
    /\ pc = "start"
    /\ now = 0
    /\ deadline = 0
    /\ calls = 0
    /\ hist = <<>>
    /\ seen = <<>>
    /\ last = NoResult
    /\ outcome = ""
    /\ detail = <<>>
    /\ table = _SCENARIO_TO_EXPECTED_DATA
    /\ maxDiff = "default"

\* The step is not part of the run.
StepIdle ==
    /\ artifact = ""
    /\ saves = 0
    /\ lastKind = ""
    /\ browser = "default"
    /\ scenario = OtherScenario
    /\ pc = "idle"
    /\ now = 0
    /\ deadline = 0
    /\ calls = 0
    /\ hist = <<>>
    /\ seen = <<>>
    /\ last = NoResult
    /\ outcome = ""
    /\ detail = <<>>
    /\ table = _SCENARIO_TO_EXPECTED_DATA
    /\ maxDiff = "default"

\* The editor saves while the step waits: the server appends the record
\* and the marker, or has only started to.
Save(kind) ==
    /\ pc = "polling"
    /\ saves < MaxSaves
    /\ artifact' = IF kind = "partial" THEN artifact
                   ELSE artifact \o Records[browser][scenario][kind]
                            \o "\n***\n"
    /\ saves' = saves + 1
    /\ lastKind' = kind
    /\ UNCHANGED <<browser, scenario, pc, now, deadline, calls, hist, seen,
                   last, outcome, detail, table, maxDiff>>
    /\ UNCHANGED <<parseVars, normVars, condVars, transformVars, caretVars>>

\* Line 88: the body of the response to the GET of the artifact.
Served(text, kind) == IF kind = "partial" THEN text \o Fragment ELSE text

\* A variant of Begin with the lookup of lines 79-84 left to the first
\* invocation of the predicate: the wait starts for every name.
BeginLooksUpLate ==
    /\ pc = "start"
    /\ pc' = "polling"
    /\ deadline' = now + Timeout
    /\ UNCHANGED <<artifact, saves, lastKind, browser, scenario, now, calls,
                   hist, seen, last, outcome, detail, table, maxDiff>>
    /\ UNCHANGED <<parseVars, normVars, condVars, transformVars, caretVars>>

\* Lines 79-84 and the call of line 111: the lookup of the expected data
\* raises KeyError for a name the table does not hold; otherwise the wait
\* starts.
Begin ==
    /\ pc = "start"
    /\ IF scenario \in DOMAIN table
       THEN /\ pc' = "polling"
            /\ deadline' = now + Timeout
            /\ outcome' = outcome
       ELSE /\ pc' = "done"
            /\ deadline' = deadline
            /\ outcome' = "KeyError"
    /\ UNCHANGED <<artifact, saves, lastKind, browser, scenario, now, calls,
                   hist, seen, last, detail, table, maxDiff>>
    /\ UNCHANGED <<parseVars, normVars, condVars, transformVars, caretVars>>

\* Variants of Evaluated that the properties of the wait must tell from
\* it: one that goes on polling after a true Result, one that an exception
\* ends.
EvaluatedPollsOn(r) ==
    /\ calls' = calls + 1
    /\ hist' = Append(hist, r)
    /\ last' = IF r.raised = "" THEN r ELSE last
    /\ pc' = "polling"

EvaluatedEndsOnRaise(r) ==
    /\ calls' = calls + 1
    /\ hist' = Append(hist, r)
    /\ last' = IF r.raised = "" THEN r ELSE last
    /\ pc' = IF r.raised # "" THEN "timedout"
             ELSE IF r.result THEN "returned" ELSE "polling"

\* What Condition.wait does with the outcome r of one invocation of the
\* predicate: a true Result ends the wait, a false one is remembered, an
\* exception counts as not yet satisfied.
Evaluated(r) ==
    /\ calls' = calls + 1
    /\ hist' = Append(hist, r)
    /\ last' = IF r.raised = "" THEN r ELSE last
    /\ pc' = IF r.raised = "" /\ r.result THEN "returned" ELSE "polling"

\* Condition.wait invokes the predicate, first when the wait starts and
\* then for as long as the timeout has not elapsed.
Poll ==
    /\ pc = "polling"
    /\ calls < MaxCalls
    /\ calls = 0 \/ now <= deadline
    /\ Evaluated(cond(Served(artifact, lastKind), browser,
                      Expected(scenario)))
    /\ seen' = Append(seen, <<lastKind, saves>>)
    /\ UNCHANGED <<artifact, saves, lastKind, browser, scenario, now,
                   deadline, outcome, detail, table, maxDiff>>
    /\ UNCHANGED <<parseVars, normVars, condVars, transformVars, caretVars>>

\* Lines 87-88, requests.get without a timeout, when the server accepts
\* the request and never answers: the call does not return.
Hang ==
    /\ pc = "polling"
    /\ calls < MaxCalls
    /\ calls = 0 \/ now <= deadline
    /\ pc' = "blocked"
    /\ UNCHANGED <<artifact, saves, lastKind, browser, scenario, now,
                   deadline, calls, hist, seen, last, outcome, detail, table,
                   maxDiff>>
    /\ UNCHANGED <<parseVars, normVars, condVars, transformVars, caretVars>>

\* Time passes while the wait sleeps or the predicate runs.
Tick ==
    /\ pc \in {"polling", "blocked"}
    /\ now <= deadline
    /\ now' = now + 1
    /\ UNCHANGED <<artifact, saves, lastKind, browser, scenario, pc, deadline,
                   calls, hist, seen, last, outcome, detail, table, maxDiff>>
    /\ UNCHANGED <<parseVars, normVars, condVars, transformVars, caretVars>>

\* The timeout has elapsed without a true Result: the wait ends.
TimeOut ==
    /\ pc = "polling"
    /\ calls >= 1
    /\ now > deadline
    /\ pc' = "timedout"
    /\ UNCHANGED <<artifact, saves, lastKind, browser, scenario, now,
                   deadline, calls, hist, seen, last, outcome, detail, table,
                   maxDiff>>
    /\ UNCHANGED <<parseVars, normVars, condVars, transformVars, caretVars>>

\* Variants of Asserted: one with the test of line 114 inverted, one
\* without line 113, one with line 113 ahead of the wait of line 111.
AssertedInverted(result) ==
    IF result = NoResult
    THEN outcome' = "ConditionTimeout" /\ detail' = <<>>
         /\ maxDiff' = maxDiff
    ELSE /\ maxDiff' = "None"
         /\ IF ~result.result \/ result.payload[1] = result.payload[2]
            THEN outcome' = "passed" /\ detail' = <<>>
            ELSE outcome' = "AssertionError" /\ detail' = result.payload

AssertedWithLimit(result) ==
    IF result = NoResult
    THEN outcome' = "ConditionTimeout" /\ detail' = <<>>
         /\ maxDiff' = maxDiff
    ELSE /\ maxDiff' = maxDiff
         /\ IF result.result \/ result.payload[1] = result.payload[2]
            THEN outcome' = "passed" /\ detail' = <<>>
            ELSE outcome' = "AssertionError" /\ detail' = result.payload

AssertedLimitLiftedFirst(result) ==
    /\ maxDiff' = "None"
    /\ IF result = NoResult
       THEN outcome' = "ConditionTimeout" /\ detail' = <<>>
       ELSE IF result.result \/ result.payload[1] = result.payload[2]
       THEN outcome' = "passed" /\ detail' = <<>>
       ELSE outcome' = "AssertionError" /\ detail' = result.payload

\* Lines 113-115, given the result of the wait: the length limit of the
\* diffs assert_equal shows is lifted; a true result passes the step; a
\* false one is asserted on, payload[0] against payload[1].  A wait that
\* ended with no Result at all leaves the step with the evaluator's
\* timeout error before line 113.
Asserted(result) ==
    IF result = NoResult
    THEN outcome' = "ConditionTimeout" /\ detail' = <<>>
         /\ maxDiff' = maxDiff
    ELSE /\ maxDiff' = "None"
         /\ IF result.result \/ result.payload[1] = result.payload[2]
            THEN outcome' = "passed" /\ detail' = <<>>
            ELSE outcome' = "AssertionError" /\ detail' = result.payload

\* Lines 111-115: the wait has ended.
Finish ==
    /\ pc \in {"returned", "timedout"}
    /\ pc' = "done"
    /\ Asserted(last)
    /\ UNCHANGED <<artifact, saves, lastKind, browser, scenario, now,
                   deadline, calls, hist, seen, last, table>>
    /\ UNCHANGED <<parseVars, normVars, condVars, transformVars, caretVars>>

(***************************************************************************)
(* Lines 88-91 of cond, one statement at a time, on the response bodies   *)
(* a server can produce: runs of well-formed envelopes and raw texts.     *)
(***************************************************************************)

\* Bounds of the model.
MaxEnvelopes == 2
MaxPieces == 3

\* The documents of the envelopes.
ParseDocs == {"<p/>", "<p>}{</p>", "a \"b\"\n"}

\* A well-formed envelope: its version and data, whether it is written on
\* one line or one member per line, and whether the marker follows it.
EnvelopeSpecs ==
    [version : {"1", "2"}, data : ParseDocs, layout : {"line", "pretty"},
     marker : BOOLEAN]

\* The text of a well-formed envelope.
Written(e) ==
    (IF e.layout = "line"
     THEN "{\"command\":\"save\",\"version\":\"" \o e.version
              \o "\",\"data\":" \o JsonString(e.data) \o "}"
     ELSE "{\n \"command\": \"save\",\n \"version\": \"" \o e.version
              \o "\",\n \"data\": " \o JsonString(e.data) \o "\n}")
    \o (IF e.marker THEN "\n***\n" ELSE "")

\* The artifact that a run of envelopes makes.
RECURSIVE Concatenated(_)
Concatenated(run) ==
    IF run = <<>> THEN ""
    ELSE Written(Head(run)) \o Concatenated(Tail(run))

\* The runs of one to MaxEnvelopes envelopes.
EnvelopeRuns ==
    UNION {[1..n -> EnvelopeSpecs] : n \in 1..MaxEnvelopes}

\* The pieces raw texts are made of, and the texts of up to MaxPieces.
Pieces == {"}{", "{", "}", "a", "\n"}

RECURSIVE Joined(_)
Joined(ps) == IF ps = <<>> THEN "" ELSE Head(ps) \o Joined(Tail(ps))

RawTexts == {Joined(ps) : ps \in UNION {[1..n -> Pieces] : n \in 1..MaxPieces}}

\* json.loads has not run.
NotLoaded == [exc |-> "none", kind |-> "", value |-> <<>>]

\* Line 88 has run: text is resp.text.
ParseInit ==
    /\ \/ pInput \in EnvelopeRuns /\ pText = Concatenated(pInput)
       \/ pInput = <<>> /\ pText \in RawTexts
    /\ pStripped = ""
    /\ pObj = NotLoaded
    /\ pPc = "l89"

\* These lines are not part of the run.
ParseIdle ==
    /\ pInput = <<>>
    /\ pText = ""
    /\ pStripped = ""
    /\ pObj = NotLoaded
    /\ pPc = "idle"

\* Line 89: text = resp.text.replace('\n***\n', '').strip()
ParseStrip ==
    /\ pPc = "l89"
    /\ pText' = Strip(Replace(pText, "\n***\n", ""))
    /\ pStripped' = pText'
    /\ pPc' = "l90"
    /\ UNCHANGED <<pInput, pObj>>
    /\ UNCHANGED <<stepVars, normVars, condVars, transformVars, caretVars>>

\* Line 90: text = last_obj_re.sub('{', text)
ParseRepair ==
    /\ pPc = "l90"
    /\ pText' = last_obj_re_sub("{", pText)
    /\ pPc' = "l91"
    /\ UNCHANGED <<pInput, pStripped, pObj>>
    /\ UNCHANGED <<stepVars, normVars, condVars, transformVars, caretVars>>

\* Line 91: actual = json.loads(text)
ParseLoads ==
    /\ pPc = "l91"
    /\ pObj' = json_loads(pText)
    /\ pPc' = "l93"
    /\ UNCHANGED <<pInput, pText, pStripped>>
    /\ UNCHANGED <<stepVars, normVars, condVars, transformVars, caretVars>>

(***************************************************************************)
(* Lines 94-107 of cond, one statement at a time, on data strings written *)
(* from a catalogue of tags and on the values of the expected-data table. *)
(***************************************************************************)

\* Bound of the model.
MaxTags == 2

\* A tag: the rewrite its attributes are the subject of (0 for none),
\* whether they stand in the order the table uses, and the text its
\* attribute values start with.
TagSpecs == [rule : 0..4, canon : BOOLEAN, val : {"", "a b"}]

\* The attributes of a tag, in the order it is written with.
TagAttrs(t) ==
    CASE t.rule = 1 ->
           IF t.canon
           THEN "rend=\"" \o t.val \o "1\" style=\"" \o t.val \o "\""
           ELSE "style=\"" \o t.val \o "\" rend=\"" \o t.val \o "1\""
      [] t.rule = 2 ->
           IF t.canon
           THEN "xmlns=\"" \o t.val \o "\" xmlns:math=\"" \o t.val \o "2\""
           ELSE "xmlns:math=\"" \o t.val \o "2\" xmlns=\"" \o t.val \o "\""
      [] t.rule = 3 ->
           IF t.canon
           THEN "type=\"" \o t.val \o "\" subtype=\"" \o t.val
                  \o "3\" rend=\"" \o t.val \o "1\" rendition=\""
                  \o t.val \o "2\""
           ELSE "type=\"" \o t.val \o "\" rend=\"" \o t.val
                  \o "1\" rendition=\"" \o t.val \o "2\" subtype=\""
                  \o t.val \o "3\""
      [] t.rule = 4 ->
           IF t.canon
           THEN "MOO=\"" \o t.val \o "4\" moo=\"" \o t.val \o "\""
           ELSE "moo=\"" \o t.val \o "\" MOO=\"" \o t.val \o "4\""
      [] OTHER ->
           IF t.canon THEN "n=\"" \o t.val \o "\""
           ELSE "rendition=\"" \o t.val \o "\" n=\"1\""

\* The data string a sequence of tags makes.
RECURSIVE Markup(_)
Markup(tags) ==
    IF tags = <<>> THEN ""
    ELSE "<div " \o TagAttrs(Head(tags)) \o ">x</div>" \o Markup(Tail(tags))

\* The sequences of one to MaxTags tags.
TagRuns == UNION {[1..n -> TagSpecs] : n \in 1..MaxTags}

\* Line 94 has found a data member in actual.
NormInit ==
    /\ nBrowser \in Browsers
    /\ \/ nTags \in TagRuns /\ nInput = Markup(nTags)
       \/ /\ nTags = <<>>
          /\ nInput \in {_SCENARIO_TO_EXPECTED_DATA[n] : n \in ScenarioNames}
    /\ nData = nInput
    /\ nLog = <<>>
    /\ nPc = "l95"

\* These lines are not part of the run.
NormIdle ==
    /\ nBrowser = "default"
    /\ nTags = <<>>
    /\ nInput = ""
    /\ nData = ""
    /\ nLog = <<>>
    /\ nPc = "idle"

\* A variant of Branch that takes the Edge-like browser for the IE-like.
BranchEdgeAsIe(b) ==
    IF b = "ie" \/ b = "edge" THEN "l96" ELSE "l109"

\* The branch lines 95 and 102 select.
Branch(b) ==
    IF b = "ie" THEN "l96" ELSE IF b = "edge" THEN "l103" ELSE "l109"

\* Lines 95 and 102: if util.ie: ... elif util.edge: ...
NormBranch ==
    /\ nPc = "l95"
    /\ nPc' = Branch(nBrowser)
    /\ UNCHANGED <<nBrowser, nTags, nInput, nData, nLog>>
    /\ UNCHANGED <<stepVars, parseVars, condVars, transformVars, caretVars>>

\* Lines 96-97: actual["data"] = flip_rend_style_re.sub(..., actual["data"])
IeRendStyle ==
    /\ nPc = "l96"
    /\ nData' = sub(flip_rend_style_re, <<2, 1>>, nData)
    /\ nLog' = Append(nLog, 1)
    /\ nPc' = "l98"
    /\ UNCHANGED <<nBrowser, nTags, nInput>>
    /\ UNCHANGED <<stepVars, parseVars, condVars, transformVars, caretVars>>

\* Lines 98-99: actual["data"] = flip_xmlns_re.sub(..., actual["data"])
IeXmlns ==
    /\ nPc = "l98"
    /\ nData' = sub(flip_xmlns_re, <<2, 1>>, nData)
    /\ nLog' = Append(nLog, 2)
    /\ nPc' = "l100"
    /\ UNCHANGED <<nBrowser, nTags, nInput>>
    /\ UNCHANGED <<stepVars, parseVars, condVars, transformVars, caretVars>>

\* Lines 100-101: actual["data"] = flip_div_attrs_re.sub(..., actual["data"])
IeDivAttrs ==
    /\ nPc = "l100"
    /\ nData' = sub(flip_div_attrs_re, <<1, 4, 2, 3>>, nData)
    /\ nLog' = Append(nLog, 3)
    /\ nPc' = "l109"
    /\ UNCHANGED <<nBrowser, nTags, nInput>>
    /\ UNCHANGED <<stepVars, parseVars, condVars, transformVars, caretVars>>

\* Lines 103-104: actual["data"] = flip_rend_style_re.sub(..., actual["data"])
EdgeRendStyle ==
    /\ nPc = "l103"
    /\ nData' = sub(flip_rend_style_re, <<2, 1>>, nData)
    /\ nLog' = Append(nLog, 1)
    /\ nPc' = "l105"
    /\ UNCHANGED <<nBrowser, nTags, nInput>>
    /\ UNCHANGED <<stepVars, parseVars, condVars, transformVars, caretVars>>

\* Lines 105-106: actual["data"] = flip_div_attrs_re.sub(..., actual["data"])
EdgeDivAttrs ==
    /\ nPc = "l105"
    /\ nData' = sub(flip_div_attrs_re, <<1, 4, 2, 3>>, nData)
    /\ nLog' = Append(nLog, 3)
    /\ nPc' = "l107"
    /\ UNCHANGED <<nBrowser, nTags, nInput>>
    /\ UNCHANGED <<stepVars, parseVars, condVars, transformVars, caretVars>>

\* Line 107: actual["data"] = flip_moo_re.sub(..., actual["data"])
EdgeMoo ==
    /\ nPc = "l107"
    /\ nData' = sub(flip_moo_re, <<2, 1>>, nData)
    /\ nLog' = Append(nLog, 4)
    /\ nPc' = "l109"
    /\ UNCHANGED <<nBrowser, nTags, nInput>>
    /\ UNCHANGED <<stepVars, parseVars, condVars, transformVars, caretVars>>

(***************************************************************************)
(* Lines 87-109 of cond, one statement at a time, on the artifact that    *)
(* one envelope makes.                                                     *)
(***************************************************************************)

\* An envelope: its command, its version ("none" when it has no such
\* member), its data (none, the scenario's document as the table holds it,
\* as the IE-like or the Edge-like browser serializes it, or an earlier
\* document), and whether it has a member besides these three.
CondEnvelopes ==
    [command : {"save", "autosave"},
     version : {"none", "1", "2"},
     data : {"none", "canon", "ie", "edge", "stale"},
     extra : BOOLEAN]

\* The data string of an envelope in a scenario.
CondData(e, name) ==
    CASE e.data = "canon" -> _SCENARIO_TO_EXPECTED_DATA[name]
      [] e.data = "ie" -> Serialized("ie", _SCENARIO_TO_EXPECTED_DATA[name])
      [] e.data = "edge" ->
           Serialized("edge", _SCENARIO_TO_EXPECTED_DATA[name])
      [] OTHER -> StaleDoc

\* The artifact that the envelope makes.
CondArtifact(e, name) ==
    "{\"command\":\"" \o e.command \o "\""
      \o (IF e.version = "none" THEN ""
          ELSE ",\"version\":\"" \o e.version \o "\"")
      \o (IF e.data = "none" THEN ""
          ELSE ",\"data\":" \o JsonString(CondData(e, name)))
      \o (IF e.extra THEN ",\"user\":\"x\"" ELSE "")
      \o "}\n***\n"

\* The evaluation is about to start.
CondInit ==
    /\ cBrowser \in Browsers
    /\ cScenario \in ScenarioNames
    /\ cEnvelope \in CondEnvelopes
    /\ cText = ""
    /\ cActual = NotLoaded
    /\ cLog = <<>>
    /\ cResult = NoResult
    /\ cPc = "l87"

\* These lines are not part of the run.
CondIdle ==
    /\ cBrowser = "default"
    /\ cScenario = OtherScenario
    /\ cEnvelope = <<>>
    /\ cText = ""
    /\ cActual = NotLoaded
    /\ cLog = <<>>
    /\ cResult = NoResult
    /\ cPc = "idle"

\* Lines 87-88: resp = requests.get(...); resp.text
CondFetch ==
    /\ cPc = "l87"
    /\ cText' = CondArtifact(cEnvelope, cScenario)
    /\ cLog' = Append(cLog, "fetch")
    /\ cPc' = "l89"
    /\ UNCHANGED <<cBrowser, cScenario, cEnvelope, cActual, cResult>>
    /\ UNCHANGED <<stepVars, parseVars, normVars, transformVars, caretVars>>

\* Line 89: text = resp.text.replace('\n***\n', '').strip()
CondStrip ==
    /\ cPc = "l89"
    /\ cText' = Strip(Replace(cText, "\n***\n", ""))
    /\ cLog' = Append(cLog, "strip")
    /\ cPc' = "l90"
    /\ UNCHANGED <<cBrowser, cScenario, cEnvelope, cActual, cResult>>
    /\ UNCHANGED <<stepVars, parseVars, normVars, transformVars, caretVars>>

\* Line 90: text = last_obj_re.sub('{', text)
CondRepair ==
    /\ cPc = "l90"
    /\ cText' = last_obj_re_sub("{", cText)
    /\ cLog' = Append(cLog, "repair")
    /\ cPc' = "l91"
    /\ UNCHANGED <<cBrowser, cScenario, cEnvelope, cActual, cResult>>
    /\ UNCHANGED <<stepVars, parseVars, normVars, transformVars, caretVars>>

\* The evaluation ends by raising exc.
CondRaise(exc) ==
    /\ cResult' = Raised(exc)
    /\ cPc' = "raised"
    /\ cActual' = cActual

\* Line 91, given what json.loads makes of text.
CondLoadsTo(loaded) ==
    IF loaded.exc # "" THEN CondRaise(loaded.exc)
    ELSE cActual' = loaded /\ cPc' = "l93" /\ cResult' = cResult

\* Line 91: actual = json.loads(text)
CondLoads ==
    /\ cPc = "l91"
    /\ CondLoadsTo(json_loads(cText))
    /\ cLog' = Append(cLog, "decode")
    /\ UNCHANGED <<cBrowser, cScenario, cEnvelope, cText>>
    /\ UNCHANGED <<stepVars, parseVars, normVars, transformVars, caretVars>>

\* A dict without its version member.
WithoutVersion(obj) == [k \in (DOMAIN obj) \ {"version"} |-> obj[k]]

\* A variant of CondDelVersion that passes over a missing version member.
CondDelVersionLenient ==
    /\ cPc = "l93"
    /\ IF cActual.kind # "dict" THEN CondRaise("TypeError")
       ELSE /\ cActual' = [cActual EXCEPT !.value = WithoutVersion(@)]
            /\ cPc' = "l94"
            /\ cResult' = cResult
    /\ cLog' = Append(cLog, "delversion")
    /\ UNCHANGED <<cBrowser, cScenario, cEnvelope, cText>>
    /\ UNCHANGED <<stepVars, parseVars, normVars, transformVars, caretVars>>

\* Line 93: del actual["version"]
CondDelVersion ==
    /\ cPc = "l93"
    /\ IF cActual.kind # "dict" THEN CondRaise("TypeError")
       ELSE IF "version" \notin DOMAIN cActual.value
       THEN CondRaise("KeyError")
       ELSE /\ cActual' = [cActual EXCEPT !.value = WithoutVersion(@)]
            /\ cPc' = "l94"
            /\ cResult' = cResult
    /\ cLog' = Append(cLog, "delversion")
    /\ UNCHANGED <<cBrowser, cScenario, cEnvelope, cText>>
    /\ UNCHANGED <<stepVars, parseVars, normVars, transformVars, caretVars>>

\* A variant of CondBranch that goes straight to the comparison.
CondBranchSkips ==
    /\ cPc = "l94"
    /\ cPc' = "l109"
    /\ UNCHANGED <<cBrowser, cScenario, cEnvelope, cText, cActual, cLog,
                   cResult>>
    /\ UNCHANGED <<stepVars, parseVars, normVars, transformVars, caretVars>>

\* Lines 94, 95 and 102: the tests that lead to a rewrite of the data or
\* straight to the comparison.
CondBranch ==
    /\ cPc = "l94"
    /\ cPc' = IF "data" \in DOMAIN cActual.value
                 /\ cBrowser \in {"ie", "edge"}
              THEN "l96" ELSE "l109"
    /\ UNCHANGED <<cBrowser, cScenario, cEnvelope, cText, cActual, cLog,
                   cResult>>
    /\ UNCHANGED <<stepVars, parseVars, normVars, transformVars, caretVars>>

\* Lines 96-101 or 103-107: the rewrites of actual["data"].
CondNormalize ==
    /\ cPc = "l96"
    /\ cActual' = [cActual EXCEPT
                      !.value["data"] = Normalize(cBrowser, @)]
    /\ cLog' = Append(cLog, "normalize")
    /\ cPc' = "l109"
    /\ UNCHANGED <<cBrowser, cScenario, cEnvelope, cText, cResult>>
    /\ UNCHANGED <<stepVars, parseVars, normVars, transformVars, caretVars>>

\* Line 109: return Result(actual == expected, [actual, expected])
CondReturn ==
    /\ cPc = "l109"
    /\ cResult' = Compare(cActual.value, Expected(cScenario))
    /\ cLog' = Append(cLog, "compare")
    /\ cPc' = "returned"
    /\ UNCHANGED <<cBrowser, cScenario, cEnvelope, cText, cActual>>
    /\ UNCHANGED <<stepVars, parseVars, normVars, transformVars, caretVars>>

(***************************************************************************)
(* The steps 'a new element is inserted before/after the selected         *)
(* element' of transform.py, after the steps that set what they read.     *)
(***************************************************************************)

\* Bound of the model.
MaxSiblings == 2

\* context.context_menu_pre_transformation_info before any step set it.
NoInfo == [set |-> FALSE, preceding |-> 0, following |-> 0]

\* The scenario starts: no context menu was brought up yet.
TransformInit ==
    /\ tFor = "unset"
    /\ tInfo = NoInfo
    /\ tPreceding \in 0..MaxSiblings
    /\ tFollowing \in 0..MaxSiblings
    /\ tStale = FALSE
    /\ tStep = ""
    /\ tOutcome = ""

\* These steps are not part of the run.
TransformIdle ==
    /\ tFor = "unset"
    /\ tInfo = NoInfo
    /\ tPreceding = 0
    /\ tFollowing = 0
    /\ tStale = FALSE
    /\ tStep = "idle"
    /\ tOutcome = ""

\* A step brings up the context menu on an element and records the
\* element and the siblings it has.
ContextMenu ==
    /\ tStep = ""
    /\ ~tStale
    /\ tFor' = "element"
    /\ tInfo' = [set |-> TRUE, preceding |-> tPreceding,
                 following |-> tFollowing]
    /\ UNCHANGED <<tPreceding, tFollowing, tStale, tStep, tOutcome>>
    /\ UNCHANGED <<stepVars, parseVars, normVars, condVars, caretVars>>

\* caret.py line 144, the end of 'the user clicks on an element's label':
\* context.context_menu_for = None
LabelClick ==
    /\ tStep = ""
    /\ tFor' = "None"
    /\ UNCHANGED <<tInfo, tPreceding, tFollowing, tStale, tStep, tOutcome>>
    /\ UNCHANGED <<stepVars, parseVars, normVars, condVars, caretVars>>

\* The editor changes the document: siblings come or go before and after
\* the element.
Transformation(before, after) ==
    /\ tStep = ""
    /\ ~tStale
    /\ <<before, after>> # <<0, 0>>
    /\ tPreceding + before \in 0..(MaxSiblings + 1)
    /\ tFollowing + after \in 0..(MaxSiblings + 1)
    /\ tPreceding' = tPreceding + before
    /\ tFollowing' = tFollowing + after
    /\ UNCHANGED <<tFor, tInfo, tStale, tStep, tOutcome>>
    /\ UNCHANGED <<stepVars, parseVars, normVars, condVars, caretVars>>

\* The editor removes the element from the document.
Removal ==
    /\ tStep = ""
    /\ ~tStale
    /\ tStale' = TRUE
    /\ UNCHANGED <<tFor, tInfo, tPreceding, tFollowing, tStep, tOutcome>>
    /\ UNCHANGED <<stepVars, parseVars, normVars, condVars, caretVars>>

\* Lines 28-36 and 41-49, given the sibling counts the two assertions
\* expect: reading a context attribute no step has set raises
\* AttributeError, finding the siblings of an element that has left the
\* document raises StaleElementReferenceException.
Inserted(preceding, following) ==
    IF tFor = "unset" \/ ~tInfo.set THEN "AttributeError"
    ELSE IF tFor = "None" THEN "AssertionError"
    ELSE IF tStale THEN "StaleElementReferenceException"
    ELSE IF preceding # tPreceding THEN "AssertionError"
    ELSE IF following # tFollowing THEN "AssertionError"
    ELSE "passed"

\* Lines 26-36: a new element is inserted before the selected element.
InsertedBefore ==
    /\ tStep = ""
    /\ tStep' = "before"
    /\ tOutcome' = Inserted(tInfo.preceding + 1, tInfo.following)
    /\ UNCHANGED <<tFor, tInfo, tPreceding, tFollowing, tStale>>
    /\ UNCHANGED <<stepVars, parseVars, normVars, condVars, caretVars>>

\* A variant of InsertedAfter that expects the new sibling before the
\* element.
InsertedAfterSwapped ==
    /\ tStep = ""
    /\ tStep' = "after"
    /\ tOutcome' = Inserted(tInfo.preceding + 1, tInfo.following)
    /\ UNCHANGED <<tFor, tInfo, tPreceding, tFollowing, tStale>>
    /\ UNCHANGED <<stepVars, parseVars, normVars, condVars, caretVars>>

\* Lines 39-49: a new element is inserted after the selected element.
InsertedAfter ==
    /\ tStep = ""
    /\ tStep' = "after"
    /\ tOutcome' = Inserted(tInfo.preceding, tInfo.following + 1)
    /\ UNCHANGED <<tFor, tInfo, tPreceding, tFollowing, tStale>>
    /\ UNCHANGED <<stepVars, parseVars, normVars, condVars, caretVars>>

(***************************************************************************)
(* The selection steps of caret.py: 'the user selects text' with the      *)
(* mouse and with the keyboard (lines 300-369), 'the user selects the     *)
(* "what" of the first title' (lines 532-568) and 'the user clicks on the *)
(* last character of the paragraph' (lines 667-686).  A step runs from    *)
(* its first line to its last with nothing in between, so each is one     *)
(* action.                                                                 *)
(*                                                                         *)
(* gui is what the editor shows: the text of the element, whether its     *)
(* labels are displayed, the width of a character and of a label, and the *)
(* caret and the anchor of the selection, each nowhere ("none"), on the   *)
(* start label ("label"), in the text before the character at an offset   *)
(* ("text") or on the end label ("endlabel").  frame holds the locals of  *)
(* the step that ran and how it ended; context is behave's context.       *)
(***************************************************************************)

\* Bounds of the model: the width of a character and the largest
\* coordinate of a caret position in the paragraph.
MaxWidth == 2
MaxLeft == 3

\* Lines 313-314 and 321, the caret after n presses of an arrow key:
\* ARROW_RIGHT takes it from the label to before the first letter and
\* then one character on, and past the last character to the end label;
\* ARROW_LEFT goes the other way round.
RECURSIVE Arrows(_, _, _, _)
Arrows(key, n, caret, text) ==
    IF n <= 0 THEN caret
    ELSE Arrows(key, n - 1,
                IF key = "ARROW_RIGHT"
                THEN IF caret.at = "label" THEN [at |-> "text", offset |-> 0]
                     ELSE IF caret.at = "text" /\ caret.offset < Len(text)
                     THEN [at |-> "text", offset |-> caret.offset + 1]
                     ELSE IF caret.at = "text"
                     THEN [at |-> "endlabel", offset |-> 0]
                     ELSE caret
                ELSE IF caret.at = "endlabel"
                     THEN [at |-> "text", offset |-> Len(text)]
                     ELSE IF caret.at = "text" /\ caret.offset > 0
                     THEN [at |-> "text", offset |-> caret.offset - 1]
                     ELSE IF caret.at = "text"
                     THEN [at |-> "label", offset |-> 0]
                     ELSE caret,
                text)

\* send_keys([key] * n): the caret moves; the anchor of the selection
\* stays where it is while SHIFT is down and follows the caret otherwise.
SendKeys(g, key, n, shift) ==
    [g EXCEPT !.caret = Arrows(key, n, g.caret, g.text),
              !.anchor = IF shift THEN @
                         ELSE Arrows(key, n, g.caret, g.text)]

\* wedutil.caret_selection_pos(driver): the coordinates of the caret on
\* the line of the element.  The text starts after the start label, which
\* has no width when labels are not displayed.
caret_selection_pos(g) ==
    [left |-> IF g.caret.at = "text"
              THEN (IF g.displayed THEN g.width ELSE 0)
                       + g.caret.offset * g.width
              ELSE IF g.caret.at = "endlabel"
              THEN (IF g.displayed THEN g.width ELSE 0)
                       + Len(g.text) * g.width
              ELSE 0,
     top |-> 0]

\* Lines 22-43, select_text(context, start, end): the button goes down at
\* start and up at end; on either the caret goes to the offset of the
\* text that is nearest.
select_text(g, start, end) ==
    LET LeftOf(n) == caret_selection_pos(
                     [g EXCEPT !.caret = [at |-> "text", offset |-> n]]).left
        Distance(a, b) == IF a >= b THEN a - b ELSE b - a
        CaretAt(left) ==
            [at |-> "text",
             offset |-> MinOr({n \in 0..Len(g.text) :
                                  \A m \in 0..Len(g.text) :
                                      Distance(left, LeftOf(n))
                                          <= Distance(left, LeftOf(m))}, 0)]
    IN  [g EXCEPT !.anchor = CaretAt(start.left),
                  !.caret = CaretAt(end.left)]

\* s[i:j] for 0 <= i <= j.
Slice(s, i, j) ==
    IF i >= Len(s) \/ i >= j THEN ""
    ELSE SubSeq(s, i + 1, IF j > Len(s) THEN Len(s) ELSE j)

\* The editor shows the element; no step has run.
CaretInit ==
    /\ gui \in [text : {"abc", "abcd", "a title"}, displayed : BOOLEAN,
                width : 1..MaxWidth,
                caret : {[at |-> "none", offset |-> 0]},
                anchor : {[at |-> "none", offset |-> 0]}]
    /\ frame = [step |-> "", arg |-> "",
                start |-> [left |-> -1, top |-> -1],
                end |-> [left |-> -1, top |-> -1],
                clicked |-> [left |-> -1, top |-> -1], outcome |-> ""]
    /\ context = [expected_selection |-> ""]

\* These steps are not part of the run.
CaretIdle ==
    /\ gui = [text |-> "", displayed |-> FALSE, width |-> 1,
              caret |-> [at |-> "none", offset |-> 0],
              anchor |-> [at |-> "none", offset |-> 0]]
    /\ frame = [step |-> "idle", arg |-> "",
                start |-> [left |-> -1, top |-> -1],
                end |-> [left |-> -1, top |-> -1],
                clicked |-> [left |-> -1, top |-> -1], outcome |-> ""]
    /\ context = [expected_selection |-> ""]

\* Lines 300-336: 'the user selects text' with the mouse, with the
\* direction its pattern captured, on an element whose labels are shown.
\* The click on the start label (310), two ARROW_RIGHT and start (315-320),
\* two more and end (322-325), the selection by direction (327-332),
\* context.expected_selection = parent_text[1:3] (334).
SelectWithMouse(direction) ==
    LET atStart ==
            SendKeys([gui EXCEPT !.caret = [at |-> "label", offset |-> 0],
                                 !.anchor = [at |-> "label", offset |-> 0]],
                     "ARROW_RIGHT", 2, FALSE)
        atEnd == SendKeys(atStart, "ARROW_RIGHT", 2, FALSE)
        read == [frame EXCEPT !.step = "mouse", !.arg = Strip(direction),
                              !.start = caret_selection_pos(atStart),
                              !.end = caret_selection_pos(atEnd)]
    IN  /\ frame.step = ""
        /\ gui.displayed
        /\ IF read.arg \in {"", "backwards"}
           THEN /\ gui' = IF read.arg = ""
                          THEN select_text(atEnd, read.start, read.end)
                          ELSE select_text(atEnd, read.end, read.start)
                /\ frame' = [read EXCEPT !.outcome = "passed"]
                /\ context' = [context EXCEPT !.expected_selection =
                                                  Slice(gui.text, 1, 3)]
           ELSE /\ gui' = atEnd
                /\ frame' = [read EXCEPT !.outcome = "ValueError"]
                /\ context' = context
        /\ UNCHANGED <<stepVars, parseVars, normVars, condVars,
                       transformVars>>

\* A variant of SelectWithKeyboard that goes two characters to the right,
\* not four, before it selects backwards.
SelectWithKeyboardShort(direction) ==
    LET clicked == [gui EXCEPT !.caret = [at |-> "label", offset |-> 0],
                               !.anchor = [at |-> "label", offset |-> 0]]
        performed ==
            IF Strip(direction) = ""
            THEN SendKeys(SendKeys(clicked, "ARROW_RIGHT", 2, FALSE),
                          "ARROW_RIGHT", 2, TRUE)
            ELSE SendKeys(SendKeys(clicked, "ARROW_RIGHT", 2, FALSE),
                          "ARROW_LEFT", 2, TRUE)
        read == [frame EXCEPT !.step = "keyboard", !.arg = Strip(direction)]
    IN  /\ frame.step = ""
        /\ gui.displayed
        /\ IF read.arg \notin {"", "backwards"}
           THEN /\ gui' = gui
                /\ frame' = [read EXCEPT !.outcome = "ValueError"]
                /\ context' = context
           ELSE IF performed.caret = performed.anchor
           THEN /\ gui' = performed
                /\ frame' = [read EXCEPT !.outcome = "AssertionError"]
                /\ context' = context
           ELSE /\ gui' = performed
                /\ frame' = [read EXCEPT !.outcome = "passed"]
                /\ context' = [context EXCEPT !.expected_selection =
                                                  Slice(gui.text, 1, 3)]
        /\ UNCHANGED <<stepVars, parseVars, normVars, condVars,
                       transformVars>>

\* Lines 339-369: 'the user selects text ... with the keyboard', with
\* whatever its pattern captured as the direction.  The chain of actions
\* (348-365) is performed at once: the click on the label, the arrows that
\* reach the start, SHIFT down, the arrows that select, SHIFT up; for a
\* direction other than forwards and backwards ValueError is raised before
\* anything is performed.  Then something must be selected (367), and
\* context.expected_selection = parent_text[1:3] (369).
SelectWithKeyboard(direction) ==
    LET clicked == [gui EXCEPT !.caret = [at |-> "label", offset |-> 0],
                               !.anchor = [at |-> "label", offset |-> 0]]
        performed ==
            IF Strip(direction) = ""
            THEN SendKeys(SendKeys(clicked, "ARROW_RIGHT", 2, FALSE),
                          "ARROW_RIGHT", 2, TRUE)
            ELSE SendKeys(SendKeys(clicked, "ARROW_RIGHT", 2 + 2, FALSE),
                          "ARROW_LEFT", 2, TRUE)
        read == [frame EXCEPT !.step = "keyboard", !.arg = Strip(direction)]
    IN  /\ frame.step = ""
        /\ gui.displayed
        /\ IF read.arg \notin {"", "backwards"}
           THEN /\ gui' = gui
                /\ frame' = [read EXCEPT !.outcome = "ValueError"]
                /\ context' = context
           ELSE IF performed.caret = performed.anchor
           THEN /\ gui' = performed
                /\ frame' = [read EXCEPT !.outcome = "AssertionError"]
                /\ context' = context
           ELSE /\ gui' = performed
                /\ frame' = [read EXCEPT !.outcome = "passed"]
                /\ context' = [context EXCEPT !.expected_selection =
                                                  Slice(gui.text, 1, 3)]
        /\ UNCHANGED <<stepVars, parseVars, normVars, condVars,
                       transformVars>>

\* Line 542: start_index = text.find(what)
start_index(text, what) == Find(text, what, 1) - 1

\* Lines 532-568: 'the user selects the "what" of the first title', up to
\* the reading of end.  The text must hold what is to be selected (543).
\* The click is on the label when it is displayed and at offset (1, 1) of
\* the element, before the first letter, when it is not (545-552).  When
\* start_index > 0, ARROW_RIGHT is sent
\* start_index + 1 if label.is_displayed() else 0 times (554-559); start
\* is read (561); len(what) ARROW_RIGHT are sent and end is read (563-568).
SelectWhat(what) ==
    LET index == start_index(gui.text, what)
        clicked ==
            IF gui.displayed
            THEN [gui EXCEPT !.caret = [at |-> "label", offset |-> 0],
                             !.anchor = [at |-> "label", offset |-> 0]]
            ELSE [gui EXCEPT !.caret = [at |-> "text", offset |-> 0],
                             !.anchor = [at |-> "text", offset |-> 0]]
        atStart ==
            IF index > 0
            THEN SendKeys(clicked, "ARROW_RIGHT",
                          IF gui.displayed THEN index + 1 ELSE 0, FALSE)
            ELSE clicked
        atEnd == SendKeys(atStart, "ARROW_RIGHT", Len(what), FALSE)
    IN  /\ frame.step = ""
        /\ IF index >= 0
           THEN /\ gui' = atEnd
                /\ frame' = [frame EXCEPT
                                !.step = "what", !.arg = what,
                                !.start = caret_selection_pos(atStart),
                                !.end = caret_selection_pos(atEnd),
                                !.outcome = "read"]
           ELSE /\ gui' = gui
                /\ frame' = [frame EXCEPT !.step = "what", !.arg = what,
                                          !.outcome = "AssertionError"]
        /\ UNCHANGED context
        /\ UNCHANGED <<stepVars, parseVars, normVars, condVars,
                       transformVars>>

\* Lines 683-684: round(pos["left"] + pos2["left"] / 2) and pos["top"].
\* The division binds tighter than the sum: half of pos2["left"] is added
\* to the whole of pos["left"].  round gives the nearest whole number and,
\* of two that are as near, the even one.
LastOffset(pos, pos2) ==
    [left |-> IF pos2.left % 2 = 1
                  /\ (pos.left + (pos2.left \div 2)) % 2 = 1
              THEN pos.left + (pos2.left \div 2) + 1
              ELSE pos.left + (pos2.left \div 2),
     top |-> pos.top]

\* Lines 667-686: 'the user clicks on the last character of the
\* paragraph'.  The click on the end label (672), one ARROW_LEFT and pos
\* (673-676), another and pos2 (677-680), the coordinates the browser
\* gives for the caret in the paragraph; then the click at the offset
\* computed from them (681-686).
ClickLastCharacter(pos, pos2) ==
    /\ frame.step = ""
    /\ gui' = SendKeys([gui EXCEPT
                           !.caret = [at |-> "endlabel", offset |-> 0],
                           !.anchor = [at |-> "endlabel", offset |-> 0]],
                       "ARROW_LEFT", 2, FALSE)
    /\ frame' = [frame EXCEPT !.step = "lastchar", !.start = pos,
                              !.end = pos2,
                              !.clicked = LastOffset(pos, pos2),
                              !.outcome = "passed"]
    /\ UNCHANGED context
    /\ UNCHANGED <<stepVars, parseVars, normVars, condVars, transformVars>>

(***************************************************************************)
(* The specifications.                                                     *)
(***************************************************************************)

\* The step against a live server.
Init ==
    StepInit /\ ParseIdle /\ NormIdle /\ CondIdle /\ TransformIdle
        /\ CaretIdle

Next ==
    \/ \E kind \in WriteKinds : Save(kind)
    \/ Begin
    \/ Poll
    \/ Hang
    \/ Tick
    \/ TimeOut
    \/ Finish

Spec == Init /\ [][Next]_vars

\* The fetch-and-parse lines on given response bodies.
ParseNext == ParseStrip \/ ParseRepair \/ ParseLoads

ParseSpecInit ==
    StepIdle /\ ParseInit /\ NormIdle /\ CondIdle /\ TransformIdle
        /\ CaretIdle

ParseSpec == ParseSpecInit /\ [][ParseNext]_vars

\* The normalizing lines on given data strings.
NormNext ==
    \/ NormBranch
    \/ IeRendStyle
    \/ IeXmlns
    \/ IeDivAttrs
    \/ EdgeRendStyle
    \/ EdgeDivAttrs
    \/ EdgeMoo

NormSpecInit ==
    StepIdle /\ ParseIdle /\ NormInit /\ CondIdle /\ TransformIdle
        /\ CaretIdle

NormSpec == NormSpecInit /\ [][NormNext]_vars

\* One evaluation of the predicate on given envelopes.
CondNext ==
    \/ CondFetch
    \/ CondStrip
    \/ CondRepair
    \/ CondLoads
    \/ CondDelVersion
    \/ CondBranch
    \/ CondNormalize
    \/ CondReturn

CondSpecInit ==
    StepIdle /\ ParseIdle /\ NormIdle /\ CondInit /\ TransformIdle
        /\ CaretIdle

CondSpec == CondSpecInit /\ [][CondNext]_vars

\* The insertion steps of transform.py.
TransformNext ==
    \/ ContextMenu
    \/ LabelClick
    \/ \E before, after \in {-1, 0, 1} : Transformation(before, after)
    \/ Removal
    \/ InsertedBefore
    \/ InsertedAfter

TransformSpecInit ==
    StepIdle /\ ParseIdle /\ NormIdle /\ CondIdle /\ TransformInit
        /\ CaretIdle

TransformSpec == TransformSpecInit /\ [][TransformNext]_vars


\* The selection steps of caret.py, one step in a run.
CaretNext ==
    \/ \E direction \in {"", " backwards"} : SelectWithMouse(direction)
    \/ \E direction \in {"", " backwards", " sideways"} :
           SelectWithKeyboard(direction)
    \/ \E what \in {"", "a", "bc", "abcd", "title", "z"} : SelectWhat(what)
    \/ \E pos, pos2 \in [left : 0..MaxLeft, top : 0..MaxLeft] :
           ClickLastCharacter(pos, pos2)

CaretSpecInit ==
    StepIdle /\ ParseIdle /\ NormIdle /\ CondIdle /\ TransformIdle
        /\ CaretInit

CaretSpec == CaretSpecInit /\ [][CaretNext]_vars
(***************************************************************************)
(* Properties of the wait (under Spec).                                    *)
(***************************************************************************)

\* The invocations of the predicate that returned a true Result, those
\* that returned a Result at all, and those that raised.
Successes == {i \in 1..Len(hist) : hist[i].raised = "" /\ hist[i].result}

Returns == {i \in 1..Len(hist) : hist[i].raised = ""}

Raises == {i \in 1..Len(hist) : hist[i].raised # ""}

\* The wait has ended without a true Result.
TimedOut ==
    \/ pc = "timedout"
    \/ pc = "done" /\ hist # <<>> /\ Successes = {}

\* C1: once an invocation of the predicate returns a true Result, it is the
\* last invocation (the k-th of k), the wait returns that Result, success
\* flag and payload, and the step passes.
C1_FirstSuccessReturned ==
    Successes # {} =>
        /\ Successes = {Len(hist)}
        /\ calls = Len(hist)
        /\ pc \in {"returned", "done"}
        /\ last = hist[Len(hist)]
        /\ pc = "done" => outcome = "passed"

\* The third invocation is the first to succeed, after a false Result.
C1_Witness ==
    /\ pc = "returned"
    /\ calls = 3
    /\ Successes = {3}
    /\ hist[1].raised = "" /\ ~hist[1].result
    /\ last = hist[3]

C3_ExceptionIsNotYetSatisfied ==
    \A i \in Raises :
        /\ outcome \notin {"JSONDecodeError", "KeyError", "TypeError"}
        /\ i = Len(hist) =>
              \/ pc \in {"polling", "blocked"}
              \/ pc \in {"timedout", "done"} /\ now > deadline
        /\ pc = "done" =>
              outcome \in {"passed", "AssertionError", "ConditionTimeout"}

\* The step passes on the third invocation after the first two raised,
\* one on an artifact not yet written, one on a record without version.
C3_Witness ==
    /\ pc = "done"
    /\ outcome = "passed"
    /\ calls = 3
    /\ hist[1].raised = "JSONDecodeError"
    /\ hist[2].raised = "KeyError"

\* C4: when the step has ended and its last invocation of the predicate saw
\* the artifact as it still is, with the matching envelope as its last
\* record, the step has passed.
C4_SaveDuringWaitSucceeds ==
    (/\ pc = "done"
     /\ seen # <<>>
     /\ lastKind = "match"
     /\ seen[Len(seen)] = <<"match", saves>>) => outcome = "passed"

Boundaries(s) == {j \in 1..(Len(s) - 1) : SubSeq(s, j, j + 1) = "}{"}

\* C5: from an artifact that is a run of well-formed envelopes, json.loads
\* returns the command, version and data of the last envelope.
C5_LastEnvelopeDecoded ==
    (pPc = "l93" /\ pInput # <<>>) =>
        /\ pObj.exc = ""
        /\ pObj.kind = "dict"
        /\ pObj.value = [command |-> "save",
                         version |-> pInput[Len(pInput)].version,
                         data |-> pInput[Len(pInput)].data]

\* C6: line 90 leaves "{" followed by what follows the last "}{" of the
\* text, and leaves a text without "}{" as it is.
C6_RepairKeepsLastObject ==
    pPc = "l91" =>
        pText = IF Boundaries(pStripped) = {} THEN pStripped
                ELSE "{" \o SubSeq(pStripped,
                                   MaxOr(Boundaries(pStripped), 0) + 2,
                                   Len(pStripped))

(***************************************************************************)
(* Properties of the normalizing lines (under NormSpec).                   *)
(***************************************************************************)

\* The tags with those that are the subject of one of the rules rewritten
\* to the order of the table.
Rewritten(tags, rules) ==
    [i \in DOMAIN tags |->
        IF tags[i].rule \in rules THEN [tags[i] EXCEPT !.canon = TRUE]
        ELSE tags[i]]

\* The rewrites applied so far.
Applied == {nLog[i] : i \in DOMAIN nLog}

\* C8: after each rewrite, every tag whose attributes are in the order the
\* rewrite is for has them in the order of the table, and every other
\* character of the data is as it was.
C8_RulesYieldCanonicalOrder ==
    nTags # <<>> => nData = Markup(Rewritten(nTags, Applied))

\* The Edge-like browser on two tags with moo before MOO.
C8_Witness ==
    /\ nPc = "l109"
    /\ nBrowser = "edge"
    /\ Len(nTags) = 2
    /\ \A i \in 1..2 : nTags[i].rule = 4 /\ ~nTags[i].canon
    /\ nTags[1] # nTags[2]
    /\ nData # nInput
    /\ nData = Markup(Rewritten(nTags, {4}))

\* C9: a data string whose tags all have their attributes in the order of
\* the table, and each value of the table, comes out of lines 95-107 as it
\* went in, whatever the browser.
C9_CanonicalIsFixedPoint ==
    (nPc = "l109" /\ \A i \in DOMAIN nTags : nTags[i].canon) =>
        /\ nData = nInput
        /\ Normalize(nBrowser, nInput) = nInput

\* The IE-like browser on the first value of the table.
C9_Witness ==
    /\ nPc = "l109"
    /\ nBrowser = "ie"
    /\ nLog = <<1, 2, 3>>
    /\ nInput = _SCENARIO_TO_EXPECTED_DATA["serializes namespaces properly"]
    /\ nData = nInput

\* The rewrites each browser is said to get, in order.
ClaimedRules(b) ==
    IF b = "ie" THEN <<1, 2, 3>>
    ELSE IF b = "edge" THEN <<1, 3, 4>>
    ELSE <<>>

\* C10: the rewrites applied are those of the browser, in ascending order,
\* each to the result of the one before; the default browser's data is
\* compared as decoded.
C10_RulesByBrowser ==
    nPc = "l109" =>
        /\ nLog = ClaimedRules(nBrowser)
        /\ nData = Normalize(nBrowser, nInput)
        /\ nBrowser = "default" => nData = nInput

\* The Edge-like browser on a tag only the IE-like browser rewrites.
C10_Witness ==
    /\ nPc = "l109"
    /\ nBrowser = "edge"
    /\ nLog = <<1, 3, 4>>
    /\ Len(nTags) = 1
    /\ nTags[1].rule = 2 /\ ~nTags[1].canon
    /\ nData = nInput

(***************************************************************************)
(* Properties of one evaluation of the predicate (under CondSpec).         *)
(***************************************************************************)

\* The evaluation has ended, and has ended with a true Result.
CondEnded == cPc \in {"returned", "raised"}

CondSucceeded == cResult.raised = "" /\ cResult.result

\* The envelope has a data member that, normalized for the browser, is the
\* table's entry for the scenario.
CondDataMatches ==
    /\ cEnvelope.data # "none"
    /\ Normalize(cBrowser, CondData(cEnvelope, cScenario))
          = _SCENARIO_TO_EXPECTED_DATA[cScenario]

\* C11 as stated: an evaluation reports success exactly when the command
\* of the envelope is "save" and its normalized data is the expected
\* entry, whatever else the envelope holds.
C11_OnlyCommandAndDataCount ==
    CondEnded =>
        (CondSucceeded <=> cEnvelope.command = "save" /\ CondDataMatches)

\* C11: an evaluation reports success exactly when the envelope has a
\* version member, the command "save", a data member that normalizes to
\* the expected entry, and no member besides these three: the comparison
\* is of the whole object less its version with the expected envelope.
C11_WholeObjectLessVersionCompared ==
    CondEnded =>
        /\ CondSucceeded <=>
              /\ cEnvelope.command = "save"
              /\ CondDataMatches
              /\ cEnvelope.version # "none"
              /\ ~cEnvelope.extra
        /\ cPc = "returned" =>
              /\ cResult.payload[2] = Expected(cScenario)
              /\ cResult.result <=> cResult.payload[1] = cResult.payload[2]

\* An envelope with the right command and data and one more member is
\* reported as a mismatch.
C11_Witness ==
    /\ cPc = "returned"
    /\ cEnvelope.command = "save"
    /\ CondDataMatches
    /\ cEnvelope.extra
    /\ ~cResult.result
    /\ cResult.payload[1]["data"] = cResult.payload[2]["data"]

\* The envelope with the other version.
OtherVersion(e) ==
    [e EXCEPT !.version = IF @ = "1" THEN "2" ELSE "1"]

\* C12: the evaluation of an envelope that has a version ends as the
\* evaluation of the same envelope with another version does: with the
\* same success flag and the same payload, or raising the same.
C12_VersionValueIgnored ==
    (CondEnded /\ cEnvelope.version # "none") =>
        /\ cResult = cond(CondArtifact(OtherVersion(cEnvelope), cScenario),
                          cBrowser, Expected(cScenario))
        /\ cPc = "returned" => "version" \notin DOMAIN cResult.payload[1]

\* A mismatch on an earlier document saved with version 1.
C12_Witness ==
    /\ cPc = "returned"
    /\ cEnvelope.version = "1"
    /\ cEnvelope.data = "stale"
    /\ ~cResult.result
    /\ cResult.payload[1] = [command |-> cEnvelope.command, data |-> StaleDoc]


\* The statements of an evaluation in the order of lines 87-109, with and
\* without the rewrites of the data.
CondOrder ==
    <<"fetch", "strip", "repair", "decode", "delversion", "normalize",
      "compare">>

CondOrderPlain ==
    <<"fetch", "strip", "repair", "decode", "delversion", "compare">>

Prefixes(seq) == {SubSeq(seq, 1, n) : n \in 0..Len(seq)}

Range(seq) == {seq[i] : i \in 1..Len(seq)}

\* The data member is rewritten: the envelope has one and the browser is
\* IE-like or Edge-like.
CondRewrites == cEnvelope.data # "none" /\ cBrowser \in {"ie", "edge"}

\* C18: the statements of an evaluation run in the order fetch, strip,
\* repair, decode, remove version, rewrite the data, compare, the rewrite
\* being run exactly for an envelope that has data on an IE-like or
\* Edge-like browser.  An evaluation that has returned has compared, as
\* its last statement: for such a browser, on data that is the rewriting
\* of the data of the envelope; for an envelope without data, on an actual
\* without data; and with the result cond has on the artifact.
C18_FixedOrder ==
    /\ cPc # "idle" =>
          cLog \in IF CondRewrites THEN Prefixes(CondOrder)
                   ELSE Prefixes(CondOrderPlain)
    /\ cPc = "returned" =>
          /\ cLog = IF CondRewrites THEN CondOrder ELSE CondOrderPlain
          /\ cResult.payload[1] = cActual.value
          /\ IF cEnvelope.data = "none"
             THEN "data" \notin DOMAIN cResult.payload[1]
             ELSE cResult.payload[1]["data"]
                     = Normalize(cBrowser, CondData(cEnvelope, cScenario))
          /\ cResult = cond(CondArtifact(cEnvelope, cScenario), cBrowser,
                            Expected(cScenario))
    /\ cPc = "raised" => "compare" \notin Range(cLog)

\* On the IE-like browser, data that differs from the expected entry as
\* sent has been rewritten and then found equal to it.
C18_Witness ==
    /\ cPc = "returned"
    /\ cBrowser = "ie"
    /\ cEnvelope.data = "ie"
    /\ CondData(cEnvelope, cScenario) # _SCENARIO_TO_EXPECTED_DATA[cScenario]
    /\ cLog = CondOrder
    /\ cResult.result

\* C19: the evaluation of an envelope without a version member never
\* returns a Result: it ends at line 93 with KeyError, before any rewrite
\* or comparison, whatever its command and data are, and so does cond on
\* the artifact.
C19_NoVersionRaises ==
    (cPc # "idle" /\ cEnvelope.version = "none") =>
        /\ cPc # "returned"
        /\ "compare" \notin Range(cLog)
        /\ cPc = "raised" =>
              /\ cResult = Raised("KeyError")
              /\ cLog[Len(cLog)] = "delversion"
        /\ cond(CondArtifact(cEnvelope, cScenario), cBrowser,
                Expected(cScenario)) = Raised("KeyError")

\* An envelope with the expected command and data and nothing else, but
\* no version, has raised KeyError.
C19_Witness ==
    /\ cPc = "raised"
    /\ cEnvelope.version = "none"
    /\ cEnvelope.command = "save"
    /\ ~cEnvelope.extra
    /\ CondDataMatches
    /\ cResult.raised = "KeyError"

(***************************************************************************)
(* Properties of the step as a whole (under Spec).                         *)
(***************************************************************************)

\* C13: for a scenario name the table has no entry for, the step ends with
\* the KeyError of the lookup and nothing else happens: the wait is never
\* started, the artifact is never fetched, the predicate never invoked.
\* No other step ends with that error.
C13_UnknownScenarioFailsFast ==
    /\ scenario \notin DOMAIN table =>
          /\ pc \in {"start", "done"}
          /\ calls = 0 /\ hist = <<>> /\ seen = <<>>
          /\ deadline = 0
          /\ last = NoResult
          /\ pc = "done" => outcome = "KeyError"
    /\ outcome = "KeyError" => scenario \notin DOMAIN table

\* The step has failed on an unknown name, while a save was never looked at.
C13_Witness ==
    /\ pc = "done"
    /\ scenario = OtherScenario
    /\ outcome = "KeyError"
    /\ calls = 0

C15_NoPartialSuccess ==
    /\ pc = "done" =>
          /\ outcome \in {"passed", "AssertionError", "ConditionTimeout",
                          "KeyError"}
          /\ outcome = "passed" <=>
                \E i \in Returns : hist[i].payload[1] = hist[i].payload[2]
          /\ outcome = "passed" => detail = <<>>
    /\ pc # "done" => outcome = ""

\* The step has passed after an invocation that returned a mismatch.
C15_Witness ==
    /\ pc = "done"
    /\ outcome = "passed"
    /\ Len(hist) >= 2
    /\ hist[1].raised = "" /\ ~hist[1].result
    /\ hist[Len(hist)].payload[1] = Expected(scenario)

\* C16 as stated: once the timeout has elapsed the step is not inside a
\* fetch, waiting for the response.
C16_FetchEndsByTimeout == pc = "blocked" => now <= deadline

GainedBefore == IF tStep = "before" THEN 1 ELSE 0

GainedAfter == IF tStep = "after" THEN 1 ELSE 0

\* C20: each of the two steps passes exactly when an element and its
\* sibling counts were recorded, the element is still in the document, and
\* it has one more sibling than recorded on the side the step names and as
\* many as recorded on the other side; a step that finds
\* context_menu_for to be None, as the label click leaves it, fails.
C20_InsertedChecksCounts ==
    tStep \in {"before", "after"} =>
        /\ tOutcome = "passed" <=>
              /\ tFor = "element"
              /\ tInfo.set
              /\ ~tStale
              /\ tPreceding = tInfo.preceding + GainedBefore
              /\ tFollowing = tInfo.following + GainedAfter
        /\ tOutcome # "passed" =>
              tOutcome \in {"AssertionError", "AttributeError",
                            "StaleElementReferenceException"}
        /\ tFor = "None" =>
              tOutcome \in {"AssertionError", "AttributeError"}

\* The step 'inserted after' has passed on an element that has siblings
\* before it and one more after it than recorded.
C20_Witness ==
    /\ tStep = "after"
    /\ tOutcome = "passed"
    /\ tInfo.preceding > 0
    /\ tPreceding = tInfo.preceding
    /\ tFollowing = tInfo.following + 1
(***************************************************************************)
(* The selection steps.                                                    *)
(***************************************************************************)

\* The text between the anchor and the caret, when both are in the text.
Selected(g) ==
    IF g.caret.at = "text" /\ g.anchor.at = "text"
    THEN Slice(g.text,
               IF g.caret.offset <= g.anchor.offset THEN g.caret.offset
               ELSE g.anchor.offset,
               IF g.caret.offset <= g.anchor.offset THEN g.anchor.offset
               ELSE g.caret.offset)
    ELSE ""

\* The caret before the character at an offset of the text.
InText(n) == [at |-> "text", offset |-> n]

\* C21: when 'the user selects text' has ended, with the mouse or with the
\* keyboard, forwards or backwards, the selection goes from offset 1 to
\* offset 3 of the title's text and is the text recorded in
\* context.expected_selection, parent_text[1:3]; any other direction has
\* ended with ValueError, with nothing selected and nothing recorded.
C21_SelectionIndependent ==
    frame.step \in {"mouse", "keyboard"}
        => IF frame.arg \in {"", "backwards"}
           THEN /\ frame.outcome = "passed"
                /\ gui.anchor = InText(IF frame.arg = "" THEN 1 ELSE 3)
                /\ gui.caret = InText(IF frame.arg = "" THEN 3 ELSE 1)
                /\ context.expected_selection = Slice(gui.text, 1, 3)
                /\ Selected(gui) = context.expected_selection
                /\ Len(Selected(gui)) = 2
           ELSE /\ frame.outcome = "ValueError"
                /\ gui.caret = gui.anchor
                /\ context.expected_selection = ""

\* A selection made backwards with the keyboard has ended.
C21_Witness ==
    /\ frame.step = "keyboard"
    /\ frame.arg = "backwards" /\ frame.outcome = "passed"
    /\ gui.anchor = InText(3) /\ gui.caret = InText(1)
    /\ context.expected_selection = "bc"

\* C22: when 'the user selects the "what" of the first title' has read
\* start and end, whatever the start_index of what in the title's text and
\* whether or not the start label is displayed, start is the position of
\* the caret at offset start_index and end is the position of the caret at
\* offset start_index + len(what), where the caret then is.
C22_CaretAtStartOfWanted ==
    (frame.step = "what" /\ frame.outcome = "read")
        => /\ frame.start = caret_selection_pos(
                  [gui EXCEPT !.caret =
                                  InText(start_index(gui.text, frame.arg))])
           /\ frame.end = caret_selection_pos(
                  [gui EXCEPT !.caret =
                                  InText(start_index(gui.text, frame.arg)
                                             + Len(frame.arg))])
           /\ gui.caret = InText(start_index(gui.text, frame.arg)
                                     + Len(frame.arg))

\* C23: when 'the user clicks on the last character of the paragraph' has
\* clicked, the horizontal offset of the click lies between pos2.left and
\* pos.left, whatever the two positions are.
C23_ClickedBetweenPositions ==
    frame.step = "lastchar"
        => \/ frame.end.left <= frame.clicked.left
              /\ frame.clicked.left <= frame.start.left
           \/ frame.start.left <= frame.clicked.left
              /\ frame.clicked.left <= frame.end.left

====
